---- MODULE Spec2Model ----
(***************************************************************************)
(* CspTrustedSiteForm (src/unnamed/part_000): the Lightning web component  *)
(* that reconciles the org's Trusted URLs against a fixed catalog of three *)
(* names.  The state is the component's fields, the position of the one    *)
(* handleSubmit invocation being followed, the createTrustedSite requests  *)
(* in flight, and what an observer of the component sees (toasts, remote   *)
(* calls).                                                                 *)
(***************************************************************************)
EXTENDS Integers, Sequences, FiniteSets, TLC

\* ------------------------------------------------------------------ bounds
\* longest snapshot the wire adapter delivers
MaxRecords == 2
\* longest inactiveTrustedUrlNames list followed (the code never clears it)
MaxInactive == 3

\* --------------------------------------------------------------- constants
UI_CONNECTOR == "ui_connector"
UI_CONNECTOR_WSS == "ui_connector_wss"
TWILIO_FLEX == "twilio_flex"

\* the three names in the order of the literals of wiredResources
Catalog == <<UI_CONNECTOR_WSS, UI_CONNECTOR, TWILIO_FLEX>>
CatalogIds == {UI_CONNECTOR, UI_CONNECTOR_WSS, TWILIO_FLEX}

\* a DeveloperName of a Trusted URL the form did not create
OTHER_NAME == "salesforce_domain"
DeveloperNames == CatalogIds \cup {OTHER_NAME}

Undefined == "undefined"
NoError == "none"
FetchError == "fetch_error"

\* values an lightning-input can hold: empty, or one URL
UrlValues == {"", "https://ui.example.com"}
\* names an input event can carry
InputNames == {UI_CONNECTOR, UI_CONNECTOR_WSS, "unrelated"}
\* values of the checkbox group
CheckboxValues == {<<>>, <<TWILIO_FLEX>>}

\* ---------------------------------------------------------------- helpers
RECURSIVE Join(_, _)
\* Array.prototype.join: the parts of the joined string, separators included
Join(parts, sep) ==
  IF Len(parts) = 0 THEN <<>>
  ELSE IF Len(parts) = 1 THEN <<parts[1]>>
  ELSE <<parts[1], sep>> \o Join(Tail(parts), sep)

Includes(seq, x) == \E i \in 1..Len(seq) : seq[i] = x

\* ---------------------------------------------------------------- records
\* one row of getCSPs; Id and EndpointUrl are fixed by the name
IdOf(name) ==
  CASE name = UI_CONNECTOR -> <<"0", "8", "y", "1", "A", "A", "A">>
    [] name = UI_CONNECTOR_WSS -> <<"0", "8", "y", "2", "A", "A", "A">>
    [] name = TWILIO_FLEX -> <<"0", "8", "y", "3", "A", "A", "A">>
    [] OTHER -> <<"0", "8", "y", "4", "A", "A", "A">>

Csp(name, active) ==
  [Id |-> IdOf(name), DeveloperName |-> name,
   EndpointUrl |-> IF name = TWILIO_FLEX THEN "https://flex.twilio.com"
                   ELSE "https://ui.example.com",
   IsActive |-> active]

CspRecords == {Csp(n, a) : n \in DeveloperNames, a \in BOOLEAN}

\* DeveloperName is unique in the org: a snapshot names each at most once
Snapshots ==
  UNION {{s \in [1..n -> CspRecords] :
            \A i, j \in 1..n : i # j => s[i].DeveloperName # s[j].DeveloperName}
         : n \in 0..MaxRecords}

\* what the wire adapter hands to wiredResources: {data, error}, where data
\* is an array of rows (isArray) or undefined
WireResults ==
  {[isArray |-> TRUE, data |-> d, error |-> NoError] : d \in Snapshots}
    \cup {[isArray |-> FALSE, data |-> <<>>, error |-> NoError],
          [isArray |-> FALSE, data |-> <<>>, error |-> FetchError]}

\* getCSPs on an org whose Trusted URLs of the catalog are the names in org,
\* all active: its rows, in the order of the catalog
Rows(org) ==
  LET names == SelectSeq(Catalog, LAMBDA id : id \in org) IN
  [i \in 1..Len(names) |-> Csp(names[i], TRUE)]

Provisioned(org) == [isArray |-> TRUE, data |-> Rows(org), error |-> NoError]

\* the rows of the result most recently handed to wiredResources
Delivered(result) == IF result.isArray THEN result.data ELSE <<>>

HasRecord(snapshot, id) ==
  \E i \in 1..Len(snapshot) : snapshot[i].DeveloperName = id

HasInactiveRecord(snapshot, id) ==
  \E i \in 1..Len(snapshot) :
     snapshot[i].DeveloperName = id /\ ~snapshot[i].IsActive

\* ----------------------------------------------------------------- errors
\* what a rejected createTrustedSite / refreshApex promise carries:
\* body an array of {message}, body an object with or without a string
\* message, or no body at all
ErrorPayloads ==
  {[body |-> "array", messages |-> <<"duplicate", "locked">>],
   [body |-> "object", messages |-> <<"limit exceeded">>],
   [body |-> "object", messages |-> <<>>],
   [body |-> "none", messages |-> <<>>]}

NoRejection == [body |-> "no rejection", messages |-> <<>>]

\* the catch block of handleSubmit reads error.body.message of an error
\* without body: a TypeError leaves the block
CatchThrows(error) == error.body = "none"

CatchMessage(error) ==
  IF error.body = "array" THEN Join(error.messages, ", ")
  ELSE IF error.body = "object" /\ Len(error.messages) = 1
       THEN <<error.messages[1]>>
  ELSE <<"Unknown error">>

\* ----------------------------------------------------------------- toasts
NoToast == [title |-> "", message |-> <<>>, variant |-> ""]

ValidationToast ==
  [title |-> "Error",
   message |-> <<"Form cannot be submitted due to errors. Please check your Trusted URL fields and try again.">>,
   variant |-> Undefined]

SuccessToast ==
  [title |-> "Success",
   message |-> <<"Trusted Site created successfully">>,
   variant |-> "success"]

ErrorToast(error) ==
  [title |-> "Error",
   message |-> <<"Error creating site: ">> \o CatchMessage(error),
   variant |-> "error"]

\* ------------------------------------------------------- settings links
\* record Ids, as sequences of characters, up to MaxIdLen long
MaxIdLen == 4
IdChars == {"0", "A"}
Ids == UNION {[1..n -> IdChars] : n \in 0..MaxIdLen}

Min(a, b) == IF a < b THEN a ELSE b
Max(a, b) == IF a > b THEN a ELSE b

\* String.prototype.slice, had a negative index counted from the last character
SliceFromLast(s, start, end) ==
  LET from == IF start < 0 THEN Max(Len(s) + start + 1, 0) ELSE Min(start, Len(s))
      to == IF end < 0 THEN Max(Len(s) + end + 1, 0) ELSE Min(end, Len(s))
  IN  SubSeq(s, from + 1, to)

\* String.prototype.slice(start, end): a negative index counts from the end
\* of the string, and both are clamped to the string
Slice(s, start, end) ==
  LET from == IF start < 0 THEN Max(Len(s) + start, 0) ELSE Min(start, Len(s))
      to == IF end < 0 THEN Max(Len(s) + end, 0) ELSE Min(end, Len(s))
  IN  SubSeq(s, from + 1, to)

CSP_SETTINGS_PATH == "/lightning/setup/SecurityCspTrustedSite/page?address=%2F"
ECA_SETTINGS_PATH == "/lightning/setup/ManageExternalClientApplication/"
ECA_SETTINGS_TAIL == "/detail/"

\* what getCSPs may return for a Trusted URL with any Id
IdResults ==
  {[isArray |-> TRUE,
    data |-> <<[Csp(UI_CONNECTOR, TRUE) EXCEPT !.Id = id]>>,
    error |-> NoError] : id \in Ids}

\* what the getExistingECA wire may hand to ExternalClientAppForm
NoEcaResult == [isArray |-> FALSE, data |-> <<>>]
EcaResults ==
  {NoEcaResult, [isArray |-> TRUE, data |-> <<>>]}
    \cup {[isArray |-> TRUE,
           data |-> <<[Id |-> id, ContactEmail |-> "admin@example.com"]>>] :
            id \in Ids}

\* no window.open yet
NoWindow == <<>>

\* ------------------------------------------------------------------ state
VARIABLES
  isLoading, uiConnector, uiConnectorWss, inactiveTrustedUrlNames, csps,
  checkboxGroupValue, isUIConnectorFieldVisible, isUIConnectorWSFieldVisible,
  isTwilioFlexFieldVisible, isDataTableVisible, isApplyBtnDisabled,
  wiredResult,
  pc,         \* where the handleSubmit invocation stands
  calls,      \* the createTrustedSite promises of the latest submission
  rejection,  \* what Promise.all of the latest submission rejected with
  settled,    \* the createTrustedSite rejection the last step delivered
  trusted,    \* the catalog names that have a Trusted URL in the org
  toast,      \* the ShowToastEvent the last step dispatched, if any
  call,       \* the latest handleSubmit call: how it entered, what it did
  eca,        \* the fields of the ExternalClientAppForm on the same page
  opened      \* the URL the last step passed to window.open, if any


fields == <<isLoading, uiConnector, uiConnectorWss, inactiveTrustedUrlNames,
            csps, checkboxGroupValue, isUIConnectorFieldVisible,
            isUIConnectorWSFieldVisible, isTwilioFlexFieldVisible,
            isDataTableVisible, isApplyBtnDisabled, wiredResult>>
formInput == <<uiConnector, uiConnectorWss, checkboxGroupValue>>
viewState == <<inactiveTrustedUrlNames, csps, isUIConnectorFieldVisible,
               isUIConnectorWSFieldVisible, isTwilioFlexFieldVisible,
               isDataTableVisible, wiredResult>>
remote == <<calls, rejection, trusted>>
events == <<toast, settled, opened>>
vars == <<fields, pc, remote, events, call, eca>>

\* nothing settled in the last step
NoSettled == [id |-> "", error |-> NoRejection]

\* a handleSubmit call on entry: no toast, no refreshApex, no exception yet
Entered(how) ==
  [entry |-> how, Success |-> 0, Error |-> 0, refreshes |-> 0, threw |-> FALSE]

\* the component as constructed, on an org with the Trusted URLs of org
Constructed(org) ==
  /\ isLoading = FALSE
  /\ uiConnector = ""
  /\ uiConnectorWss = ""
  /\ inactiveTrustedUrlNames = <<>>
  /\ csps = <<>>
  /\ checkboxGroupValue = <<>>
  /\ isUIConnectorFieldVisible = TRUE
  /\ isUIConnectorWSFieldVisible = TRUE
  /\ isTwilioFlexFieldVisible = TRUE
  /\ isDataTableVisible = FALSE
  /\ isApplyBtnDisabled = FALSE
  /\ wiredResult = [isArray |-> FALSE, data |-> <<>>, error |-> NoError]
  /\ pc = "idle"
  /\ calls = [id \in CatalogIds |-> "none"]
  /\ settled = NoSettled
  /\ rejection = NoRejection
  /\ trusted = org
  /\ toast = NoToast
  /\ call = Entered("never")
  /\ eca = [wiredResult |-> NoEcaResult, contactEmail |-> "", ecaId |-> <<>>,
            doesExternalAppExist |-> FALSE]
  /\ opened = NoWindow

\* any of the catalog's Trusted URLs may exist before the page is opened
Init == \E org \in SUBSET CatalogIds : Constructed(org)

\* -------------------------------------------------------- wiredResources
RECURSIVE InactivePushed(_, _)
\* the forEach of wiredResources: the names pushed for rows with !IsActive
InactivePushed(names, rows) ==
  IF Len(rows) = 0 THEN names
  ELSE InactivePushed(
         IF ~Head(rows).IsActive THEN Append(names, Head(rows).DeveloperName)
         ELSE names,
         Tail(rows))

RECURSIVE InitialFields(_)
\* the forEach of wiredResources: the catalog names pushed to initialFields
InitialFields(rows) ==
  IF Len(rows) = 0 THEN <<>>
  ELSE (IF Head(rows).DeveloperName \in CatalogIds
        THEN <<Head(rows).DeveloperName>> ELSE <<>>)
       \o InitialFields(Tail(rows))

wiredResources(result) ==
  /\ wiredResult' = result
  /\ IF ~result.isArray \/ Len(result.data) = 0
     THEN UNCHANGED <<csps, inactiveTrustedUrlNames, isUIConnectorFieldVisible,
                      isUIConnectorWSFieldVisible, isTwilioFlexFieldVisible,
                      isDataTableVisible, isApplyBtnDisabled>>
     ELSE LET initialFields == InitialFields(result.data) IN
          /\ csps' = result.data
          /\ inactiveTrustedUrlNames' =
               InactivePushed(inactiveTrustedUrlNames, result.data)
          /\ Len(inactiveTrustedUrlNames') <= MaxInactive
          /\ isUIConnectorFieldVisible' =
               (isUIConnectorFieldVisible /\ ~Includes(initialFields, UI_CONNECTOR))
          /\ isUIConnectorWSFieldVisible' =
               (isUIConnectorWSFieldVisible
                  /\ ~Includes(initialFields, UI_CONNECTOR_WSS))
          /\ isTwilioFlexFieldVisible' =
               (isTwilioFlexFieldVisible /\ ~Includes(initialFields, TWILIO_FLEX))
          /\ isDataTableVisible' =
               (\E i \in 1..Len(Catalog) : Includes(initialFields, Catalog[i]))
          /\ isApplyBtnDisabled' =
               (\A i \in 1..Len(Catalog) : Includes(initialFields, Catalog[i]))
  /\ toast' = NoToast
  /\ settled' = NoSettled
  /\ opened' = NoWindow
  /\ UNCHANGED <<eca, isLoading, formInput, pc, remote, call>>

\* the wire adapter hands over what getCSPs returns now
getCSPsProvisioned == wiredResources(Provisioned(trusted))

\* ----------------------------------------------------------------- getters
numberOfInactiveUrls == Len(inactiveTrustedUrlNames)
inactiveUrlNames == Join(inactiveTrustedUrlNames, ", ")

dataTableData ==
  [i \in 1..Len(csps) |->
     [developerName |-> csps[i].DeveloperName,
      endpoint |-> csps[i].EndpointUrl,
      isActive |-> csps[i].IsActive,
      settingsUrl |-> <<CSP_SETTINGS_PATH>> \o Slice(csps[i].Id, 0, -3)]]

\* ------------------------------------------------------------- user input
\* handleUrlChange, had it written the value to both URL fields
handleUrlChangeBoth(name, value) ==
  /\ uiConnector' = IF name \in {UI_CONNECTOR, UI_CONNECTOR_WSS} THEN value
                    ELSE uiConnector
  /\ uiConnectorWss' = IF name \in {UI_CONNECTOR, UI_CONNECTOR_WSS} THEN value
                       ELSE uiConnectorWss
  /\ toast' = NoToast
  /\ settled' = NoSettled
  /\ opened' = NoWindow
  /\ UNCHANGED <<eca, isLoading, checkboxGroupValue, viewState,
                 isApplyBtnDisabled, pc, remote, call>>

handleUrlChange(name, value) ==
  /\ uiConnector' = IF name = UI_CONNECTOR THEN value ELSE uiConnector
  /\ uiConnectorWss' =
       IF name # UI_CONNECTOR /\ name = UI_CONNECTOR_WSS THEN value
       ELSE uiConnectorWss
  /\ toast' = NoToast
  /\ settled' = NoSettled
  /\ opened' = NoWindow
  /\ UNCHANGED <<eca, isLoading, checkboxGroupValue, viewState,
                 isApplyBtnDisabled, pc, remote, call>>

handleCheckbox(value) ==
  /\ checkboxGroupValue' = value
  /\ toast' = NoToast
  /\ settled' = NoSettled
  /\ opened' = NoWindow
  /\ UNCHANGED <<eca, isLoading, uiConnector, uiConnectorWss, viewState,
                 isApplyBtnDisabled, pc, remote, call>>

\* ------------------------------------------------------------ handleSubmit
\* onCreateTrustedUrls without lines 210-217
onCreateTrustedUrlsOnly ==
  {id \in CatalogIds :
     \/ id = UI_CONNECTOR /\ uiConnector # ""
     \/ id = UI_CONNECTOR_WSS /\ uiConnectorWss # ""}

\* the names onCreateTrustedUrls issues a createTrustedSite request for
onCreateTrustedUrls ==
  {id \in CatalogIds :
     \/ id = UI_CONNECTOR /\ uiConnector # ""
     \/ id = UI_CONNECTOR_WSS /\ uiConnectorWss # ""
     \/ id = TWILIO_FLEX /\ Includes(checkboxGroupValue, TWILIO_FLEX)}

\* event.target is not the form: logged, nothing else
handleSubmitNotForm ==
  /\ pc = "idle"
  /\ call' = Entered("notForm")
  /\ toast' = NoToast
  /\ settled' = NoSettled
  /\ opened' = NoWindow
  /\ UNCHANGED <<eca, fields, pc, remote>>

\* handleSubmitInvalid, had the validity check come after lines 243-245
handleSubmitInvalidLoadsFirst ==
  /\ pc = "idle"
  /\ toast' = ValidationToast
  /\ settled' = NoSettled
  /\ call' = [Entered("invalid") EXCEPT !.Error = 1]
  /\ isLoading' = TRUE
  /\ isApplyBtnDisabled' = TRUE
  /\ opened' = NoWindow
  /\ UNCHANGED <<eca, formInput, viewState, pc, remote>>

\* checkValidity() is false: the static toast, nothing else
handleSubmitInvalid ==
  /\ pc = "idle"
  /\ toast' = ValidationToast
  /\ settled' = NoSettled
  /\ call' = [Entered("invalid") EXCEPT !.Error = 1]
  /\ opened' = NoWindow
  /\ UNCHANGED <<eca, fields, pc, remote>>

\* a valid form: the flags are set, the requests go out, Promise.all is awaited
handleSubmitStart ==
  /\ pc = "idle"
  /\ isLoading' = TRUE
  /\ isApplyBtnDisabled' = TRUE
  /\ LET creators == onCreateTrustedUrls IN
       calls' = [id \in CatalogIds |->
                   IF id \in creators THEN "pending" ELSE "none"]
  /\ rejection' = NoRejection
  /\ pc' = "creating"
  /\ call' = Entered("valid")
  /\ toast' = NoToast
  /\ settled' = NoSettled
  /\ opened' = NoWindow
  /\ UNCHANGED <<eca, formInput, viewState, trusted>>

\* one createTrustedSite promise is fulfilled: the org has the Trusted URL
createTrustedSiteFulfilled(id) ==
  /\ calls[id] = "pending"
  /\ calls' = [calls EXCEPT ![id] = "ok"]
  /\ trusted' = trusted \cup {id}
  /\ toast' = NoToast
  /\ settled' = NoSettled
  /\ opened' = NoWindow
  /\ UNCHANGED <<eca, fields, pc, rejection, call>>

\* one createTrustedSite promise is rejected; Promise.all rejects with the
\* first rejection it sees and ignores the later ones
createTrustedSiteRejected(id, error) ==
  /\ calls[id] = "pending"
  /\ calls' = [calls EXCEPT ![id] = "failed"]
  /\ rejection' = IF pc = "creating" /\ rejection = NoRejection THEN error
                  ELSE rejection
  /\ toast' = NoToast
  /\ settled' = [id |-> id, error |-> error]
  /\ opened' = NoWindow
  /\ UNCHANGED <<eca, fields, pc, trusted, call>>

\* Catch, had handleSubmit no finally block
CatchWithoutFinally(error) ==
  /\ IF CatchThrows(error)
     THEN /\ call' = [call EXCEPT !.threw = TRUE]
          /\ toast' = NoToast
          /\ UNCHANGED <<isApplyBtnDisabled, isLoading>>
     ELSE /\ toast' = ErrorToast(error)
          /\ call' = [call EXCEPT !.Error = @ + 1]
          /\ isApplyBtnDisabled' = FALSE
          /\ isLoading' = FALSE
  /\ settled' = NoSettled
  /\ pc' = "idle"

\* the catch and finally blocks of handleSubmit
Catch(error) ==
  /\ IF CatchThrows(error)
     THEN /\ call' = [call EXCEPT !.threw = TRUE]
          /\ toast' = NoToast
          /\ UNCHANGED isApplyBtnDisabled
     ELSE /\ toast' = ErrorToast(error)
          /\ call' = [call EXCEPT !.Error = @ + 1]
          /\ isApplyBtnDisabled' = FALSE
  /\ settled' = NoSettled
  /\ isLoading' = FALSE
  /\ pc' = "idle"

\* handleSubmitFulfilled, had lines 263-265 come before the await of line 257
handleSubmitFulfilledResetsFirst ==
  /\ pc = "creating"
  /\ \A id \in CatalogIds : calls[id] \in {"none", "ok"}
  /\ toast' = SuccessToast
  /\ settled' = NoSettled
  /\ call' = [call EXCEPT !.Success = @ + 1, !.refreshes = @ + 1]
  /\ pc' = "refreshing"
  /\ uiConnectorWss' = ""
  /\ uiConnector' = ""
  /\ checkboxGroupValue' = <<>>
  /\ opened' = NoWindow
  /\ UNCHANGED <<eca, isLoading, viewState, isApplyBtnDisabled, remote>>

\* Promise.all fulfilled: the Success toast, then refreshApex is awaited
handleSubmitFulfilled ==
  /\ pc = "creating"
  /\ \A id \in CatalogIds : calls[id] \in {"none", "ok"}
  /\ toast' = SuccessToast
  /\ settled' = NoSettled
  /\ call' = [call EXCEPT !.Success = @ + 1, !.refreshes = @ + 1]
  /\ pc' = "refreshing"
  /\ opened' = NoWindow
  /\ UNCHANGED <<eca, fields, remote>>

\* Promise.all rejected: catch, finally
handleSubmitRejected ==
  /\ pc = "creating"
  /\ rejection # NoRejection
  /\ Catch(rejection)
  /\ rejection' = NoRejection
  /\ opened' = NoWindow
  /\ UNCHANGED <<eca, formInput, viewState, calls, trusted>>

\* refreshApex resolved, which it does once the wire holds what getCSPs
\* returns now: the form input is emptied, finally
refreshApexResolved ==
  /\ pc = "refreshing"
  /\ wiredResult = Provisioned(trusted)
  /\ uiConnectorWss' = ""
  /\ uiConnector' = ""
  /\ checkboxGroupValue' = <<>>
  /\ isLoading' = FALSE
  /\ pc' = "idle"
  /\ toast' = NoToast
  /\ settled' = NoSettled
  /\ opened' = NoWindow
  /\ UNCHANGED <<eca, viewState, isApplyBtnDisabled, remote, call>>

\* refreshApex rejected: catch, finally
refreshApexRejected(error) ==
  /\ pc = "refreshing"
  /\ Catch(error)
  /\ opened' = NoWindow
  /\ UNCHANGED <<eca, formInput, viewState, remote>>

\* -------------------------------------------------- ExternalClientAppForm
\* wiredResources of ExternalClientAppForm: the first record, if any, is kept
ecaWiredResources(params) ==
  /\ eca' = IF params.isArray /\ Len(params.data) > 0
            THEN [wiredResult |-> params,
                  doesExternalAppExist |-> TRUE,
                  contactEmail |-> params.data[1].ContactEmail,
                  ecaId |-> params.data[1].Id]
            ELSE [eca EXCEPT !.wiredResult = params]
  /\ opened' = NoWindow
  /\ toast' = NoToast
  /\ settled' = NoSettled
  /\ UNCHANGED <<fields, pc, remote, call>>

handleNavigateToEcaSettings ==
  /\ opened' = <<ECA_SETTINGS_PATH>> \o Slice(eca.ecaId, 0, -3)
                 \o <<ECA_SETTINGS_TAIL>>
  /\ toast' = NoToast
  /\ settled' = NoSettled
  /\ UNCHANGED <<eca, fields, pc, remote, call>>

\* ------------------------------------------------------------ the template
\* the input of a name is rendered while its field is visible
Rendered(name) ==
  CASE name = UI_CONNECTOR -> isUIConnectorFieldVisible
    [] name = UI_CONNECTOR_WSS -> isUIConnectorWSFieldVisible
    [] name = TWILIO_FLEX -> isTwilioFlexFieldVisible
    [] OTHER -> TRUE

\* the form can be submitted while the Apply button is enabled
ApplyEnabled == ~isApplyBtnDisabled

\* ---------------------------------------------------------- specification
Next ==
  \/ getCSPsProvisioned
  \/ \E name \in InputNames, value \in UrlValues :
       Rendered(name) /\ handleUrlChange(name, value)
  \/ \E value \in CheckboxValues : Rendered(TWILIO_FLEX) /\ handleCheckbox(value)
  \/ ApplyEnabled /\ handleSubmitNotForm
  \/ ApplyEnabled /\ handleSubmitInvalid
  \/ ApplyEnabled /\ handleSubmitStart
  \/ \E id \in CatalogIds : createTrustedSiteFulfilled(id)
  \/ \E id \in CatalogIds, error \in ErrorPayloads :
       createTrustedSiteRejected(id, error)
  \/ handleSubmitFulfilled
  \/ handleSubmitRejected
  \/ refreshApexResolved
  \/ \E error \in ErrorPayloads : refreshApexRejected(error)

Spec == Init /\ [][Next]_vars

\* every createTrustedSite request and every refreshApex settles, and a
\* handler whose awaited promise has settled is resumed
Settles(id) ==
  \/ createTrustedSiteFulfilled(id)
  \/ \E error \in ErrorPayloads : createTrustedSiteRejected(id, error)

RefreshSettles ==
  \/ refreshApexResolved
  \/ \E error \in ErrorPayloads : refreshApexRejected(error)

Fairness ==
  /\ \A id \in CatalogIds : WF_vars(Settles(id))
  /\ WF_vars(RefreshSettles)
  /\ WF_vars(handleSubmitFulfilled)
  /\ WF_vars(handleSubmitRejected)

SpecLive == Init /\ [][Next]_vars /\ Fairness

\* the view state alone: every result of WireResults, no user, no submission
NextWire == \E result \in WireResults : wiredResources(result)

InitWire == Constructed({})

SpecWire == InitWire /\ [][NextWire]_vars

\* the settings links alone: records with any Id, on both forms
NextLink ==
  \/ \E result \in IdResults : wiredResources(result)
  \/ \E params \in EcaResults : ecaWiredResources(params)
  \/ handleNavigateToEcaSettings

SpecLink == InitWire /\ [][NextLink]_vars

\* ------------------------------------------------------------ vocabulary
\* the snapshot most recently delivered to wiredResources
Snapshot == Delivered(wiredResult)

Present(id) == HasRecord(Snapshot, id)

FieldVisible(id) ==
  CASE id = UI_CONNECTOR -> isUIConnectorFieldVisible
    [] id = UI_CONNECTOR_WSS -> isUIConnectorWSFieldVisible
    [] id = TWILIO_FLEX -> isTwilioFlexFieldVisible

\* a step in which handleSubmit issues its createTrustedSite requests
Submits == pc = "idle" /\ pc' = "creating"
\* a step in which handleSubmit catches the rejection of Promise.all
CatchesRejection == pc = "creating" /\ pc' = "idle"

Contains(text, part) == Includes(text, part)

\* ------------------------------------------------------------------ claims
\* C1: a submission issues no createTrustedSite request for a catalog name
\* that has a record in the snapshot most recently delivered.
C1_NoRequestForPresent ==
  [][Submits => \A id \in CatalogIds : calls'[id] = "pending" => ~Present(id)]_vars

\* C2: the submission that follows one in which a request succeeded and a
\* request failed issues no createTrustedSite request for a name whose request
\* succeeded.
C2_NoSecondRequestAfterSuccess ==
  [][/\ Submits
     /\ \E id \in CatalogIds : calls[id] = "ok"
     /\ \E id \in CatalogIds : calls[id] = "failed"
     => \A id \in CatalogIds : calls[id] = "ok" => calls'[id] # "pending"]_vars

\* C3: each field-visibility flag is true exactly when the snapshot most
\* recently delivered has no record of that name.
C3_VisibleIffAbsent ==
  \A id \in CatalogIds : FieldVisible(id) <=> ~Present(id)

\* C4: while no submission is in flight, the Apply button is disabled exactly
\* when all three names have a record in the snapshot most recently delivered.
C4_DisabledIffNothingAbsent ==
  ~isLoading => (isApplyBtnDisabled <=> \A id \in CatalogIds : Present(id))

\* C4, in the states it names: no submission in flight, the latest one, if
\* any, ended without an error.
C4_DisabledIffNothingAbsentAfterSuccess ==
  ~isLoading /\ call.Error = 0 /\ ~call.threw => C4_DisabledIffNothingAbsent

\* C5: inactiveTrustedUrlNames lists, once each, exactly the catalog names
\* with an inactive record in the snapshot most recently delivered, and
\* numberOfInactiveUrls is their number.
C5_InactiveMatchesSnapshot ==
  LET inactive == {id \in CatalogIds : HasInactiveRecord(Snapshot, id)} IN
  /\ numberOfInactiveUrls = Cardinality(inactive)
  /\ \A id \in DeveloperNames :
       Cardinality({i \in 1..Len(inactiveTrustedUrlNames) :
                      inactiveTrustedUrlNames[i] = id})
         = IF id \in inactive THEN 1 ELSE 0

\* C6: delivering the same result to wiredResources again leaves every
\* derived value as the first delivery left it.
C6_RedeliveryIdempotent ==
  [][wiredResult' = wiredResult =>
       UNCHANGED <<isUIConnectorFieldVisible, isUIConnectorWSFieldVisible,
                   isTwilioFlexFieldVisible, isDataTableVisible,
                   isApplyBtnDisabled, numberOfInactiveUrls,
                   inactiveUrlNames>>]_vars

FormEmpty == uiConnector = "" /\ uiConnectorWss = "" /\ checkboxGroupValue = <<>>

\* C7: a submission that fails checkValidity() shows the static error toast,
\* issues no createTrustedSite request, calls no refreshApex and leaves the
\* form input, isLoading and isApplyBtnDisabled as they were.
C7_ValidationFailure ==
  /\ [](call.entry = "invalid" =>
          call.Error = 1 /\ call.Success = 0 /\ call.refreshes = 0 /\ ~call.threw)
  /\ [][toast' = ValidationToast =>
          /\ call'.entry = "invalid"
          /\ UNCHANGED <<uiConnector, uiConnectorWss, checkboxGroupValue,
                         isLoading, isApplyBtnDisabled, calls, pc>>]_vars

C7_Witness ==
  /\ toast = ValidationToast
  /\ call.entry = "invalid"
  /\ uiConnector # "" /\ checkboxGroupValue # <<>>
  /\ ~isLoading /\ ~isApplyBtnDisabled

\* C8: when every createTrustedSite request of a submission succeeds, the
\* Success toast is shown once, refreshApex is called once, and the form
\* input is emptied by the handler only once refreshApex has resolved.
C8_SuccessPath ==
  /\ [](/\ call.Success <= 1 /\ call.refreshes <= 1
        /\ pc = "refreshing" =>
             /\ call.Success = 1 /\ call.refreshes = 1
             /\ \A id \in CatalogIds : calls[id] \in {"none", "ok"})
  /\ [][Submits => UNCHANGED formInput]_vars
  /\ [][pc = "creating" /\ pc' # "creating" /\ rejection = NoRejection =>
          /\ pc' = "refreshing"
          /\ toast' = SuccessToast
          /\ call'.Success = 1 /\ call'.refreshes = 1
          /\ UNCHANGED formInput]_vars
  /\ [][pc = "refreshing" /\ pc' = "idle" /\ call'.Error = 0 /\ ~call'.threw =>
          /\ FormEmpty'
          /\ wiredResult = Provisioned(trusted)
          /\ call' = call]_vars

C8_Witness ==
  /\ pc = "idle" /\ ~isLoading
  /\ call.entry = "valid" /\ call.Success = 1 /\ call.Error = 0 /\ ~call.threw
  /\ call.refreshes = 1
  /\ \A id \in CatalogIds : calls[id] = "ok"
  /\ FormEmpty

\* C9: when a createTrustedSite request of a submission fails, the form
\* input is left as it was, refreshApex is not called, and an error toast
\* with the messages of the failure is shown.
C9_FailureKeepsInput ==
  [][CatchesRejection =>
       /\ UNCHANGED formInput
       /\ call'.refreshes = 0
       /\ toast'.title = "Error"
       /\ \A i \in 1..Len(rejection.messages) :
            Contains(toast'.message, rejection.messages[i])]_vars

\* C10: when more than one createTrustedSite request of a submission has
\* failed, the error toast holds the messages of each of them, also of the
\* one that failed last.
C10_AllFailuresAggregated ==
  [][/\ CatchesRejection
     /\ toast'.title = "Error"
     /\ Cardinality({id \in CatalogIds : calls[id] = "failed"}) >= 2
     => \A i \in 1..Len(settled.error.messages) :
          Contains(toast'.message, settled.error.messages[i])]_vars

\* C11: whatever the shape of the error a createTrustedSite request was
\* rejected with, handleSubmit catches it, shows exactly one Error toast,
\* enables the Apply button again, clears isLoading and lets no exception out.
C11_EveryFailureIsReported ==
  [][CatchesRejection =>
       /\ toast'.title = "Error"
       /\ call'.Error = 1
       /\ ~call'.threw
       /\ ~isApplyBtnDisabled'
       /\ ~isLoading']_vars

\* C12: while the result most recently delivered carries an error, the view
\* is that of an empty snapshot: the three fields visible, the data table
\* hidden, the Apply button enabled.
C12_ErrorShowsEmptyView ==
  wiredResult.error = FetchError =>
    /\ \A id \in CatalogIds : FieldVisible(id)
    /\ ~isDataTableVisible
    /\ ~isApplyBtnDisabled

\* C13: the data table is visible exactly when the snapshot most recently
\* delivered has a record of at least one catalog name.
C13_TableIffCatalogRecord ==
  isDataTableVisible <=> \E id \in CatalogIds : Present(id)

\* C14: every name in inactiveTrustedUrlNames is a catalog name whose field
\* is hidden.
C14_InactiveAreHiddenCatalogNames ==
  \A i \in 1..Len(inactiveTrustedUrlNames) :
    /\ inactiveTrustedUrlNames[i] \in CatalogIds
    /\ ~FieldVisible(inactiveTrustedUrlNames[i])

\* the form input of a catalog name, and the value the reset gives it
InputOf(id) ==
  CASE id = UI_CONNECTOR -> uiConnector
    [] id = UI_CONNECTOR_WSS -> uiConnectorWss
    [] id = TWILIO_FLEX -> checkboxGroupValue

ResetValue(id) == IF id = TWILIO_FLEX THEN <<>> ELSE ""

\* a step in which handleSubmit completes without an error
Succeeds ==
  pc = "refreshing" /\ pc' = "idle" /\ call'.Error = 0 /\ ~call'.threw

Truncated(id) == [i \in 1..(Len(id) - 3) |-> id[i]]

\* C16: the settings link of every row of dataTableData, and the URL
\* handleNavigateToEcaSettings opens, is the path with the record Id cut by
\* exactly its last 3 characters, for every Id of 3 characters or more.
C16_LinkTruncatesId ==
  /\ [](\A i \in 1..Len(csps) :
          Len(csps[i].Id) >= 3 =>
            dataTableData[i].settingsUrl
              = <<CSP_SETTINGS_PATH>> \o Truncated(csps[i].Id))
  /\ [][opened' # NoWindow /\ Len(eca.ecaId) >= 3 =>
          opened' = <<ECA_SETTINGS_PATH>> \o Truncated(eca.ecaId)
                      \o <<ECA_SETTINGS_TAIL>>]_vars

C16_Witness ==
  /\ Len(csps) = 1
  /\ csps[1].Id = <<"0", "A", "A", "A">>
  /\ dataTableData[1].settingsUrl = <<CSP_SETTINGS_PATH, "0">>
  /\ eca.ecaId = <<"A", "0", "0", "0">>
  /\ opened = <<ECA_SETTINGS_PATH, "A", ECA_SETTINGS_TAIL>>

C18_SubmissionReturnsToIdle ==
  /\ []<>(~isLoading)
  /\ [](isLoading <=> pc # "idle")

C18_Witness ==
  /\ pc = "idle" /\ ~isLoading
  /\ call.entry = "valid" /\ call.Success = 1 /\ call.threw

\* a step of handleUrlChange or handleCheckbox that changes the form input
ChangesInput == formInput' # formInput /\ ~(pc = "refreshing" /\ pc' = "idle")

\* C19: handleUrlChange and handleCheckbox change one entry of the form input
\* and nothing else: not the snapshot, the visibility flags, the data table,
\* the Apply button, isLoading or the inactive list, and no request goes out.
C19_InputChangesInputOnly ==
  [][ChangesInput =>
       /\ \/ UNCHANGED <<uiConnectorWss, checkboxGroupValue>>
          \/ UNCHANGED <<uiConnector, checkboxGroupValue>>
          \/ UNCHANGED <<uiConnector, uiConnectorWss>>
       /\ UNCHANGED <<viewState, isApplyBtnDisabled, isLoading, pc, remote,
                      call>>]_vars

C19_Witness ==
  /\ pc = "creating" /\ isLoading
  /\ calls[UI_CONNECTOR] = "none" /\ uiConnector # ""
  /\ calls[TWILIO_FLEX] = "pending" /\ checkboxGroupValue = <<>>
  /\ uiConnectorWss = ""

\* C20: while a submission is in flight the Apply button is disabled.
C20_LoadingImpliesDisabled ==
  isLoading => isApplyBtnDisabled

\* C21: no handleSubmit call shows both the Success and the Error toast, also
\* when refreshApex fails after the requests succeeded, and a call that
\* showed the Success toast ends with the form input reset.
C21_SuccessExcludesError ==
  /\ [](~(call.Success >= 1 /\ call.Error >= 1))
  /\ [][pc = "refreshing" /\ pc' = "idle" => FormEmpty']_vars

====
